---- MODULE Spec2Model ----
(***************************************************************************)
(* Model of fetch_yahoo_prices (src/fetch_data.py) and the two quote       *)
(* adapters it falls back to, _fallback_quote and _finnhub_quote.          *)
(*                                                                         *)
(* Numbers are fixed-point integers in thousandths: a price 12.347 is      *)
(* 12347, a percentage 54.32 is 54320.  round(x, 2) therefore maps a       *)
(* value to a multiple of 10.  The non-numbers a float can be are kept     *)
(* apart from the numbers: None (missing / not convertible), NaN, inf.     *)
(* Symbols are sequences of one-character strings, so that the substring   *)
(* test of _finnhub_quote is computed, not assumed.                        *)
(***************************************************************************)
EXTENDS Integers, Sequences, FiniteSets, TLC

\* ------------------------------------------------------------- bounds
\* longest manifest
MaxLen == 3
\* largest batch_size tried (the smallest is -1)
MaxBatch == 2

\* ------------------------------------------------------------- values
None == -900001
NaN == -900002
PosInf == -900003
\* the largest finite float, on the scale of the model: a result of float
\* arithmetic beyond it is inf
FloatMax == 100000

\* raw values an adapter may deliver for a price field
RawPrices == {None, NaN, 0, 10000}
\* raw values an adapter may deliver for a reference field
RawRefs == {None, PosInf, 0, 8000}

\* ------------------------------------------------------------- symbols
\* a class-share symbol: it holds a dot, but none of the excluded markers
SymB == <<"B", ".", "B">>
SymIdx == <<"^", "G">>
SymL == <<"V", ".", "L">>

\* item.get('logo_url') of a record without one
NoLogo == "null"

\* the records a manifest is drawn from: symbol and logo_url
Pool ==
  { [symbol |-> SymB, logo_url |-> "logoB"],
    [symbol |-> SymIdx, logo_url |-> NoLogo],
    [symbol |-> SymL, logo_url |-> "logoL"] }

RECURSIVE InjSeqs(_, _)
InjSeqs(S, n) ==
  IF n = 0 THEN {<<>>}
  ELSE LET shorter == InjSeqs(S, n - 1)
       IN  shorter \cup
           { Append(q, x) : q \in {r \in shorter : Len(r) = n - 1}, x \in S }

\* manifests: sequences of records with pairwise distinct symbols
Manifests ==
  { m \in InjSeqs(Pool, MaxLen) :
      \A a, b \in 1..Len(m) : a # b => m[a].symbol # m[b].symbol }

\* ------------------------------------------------------------- arithmetic
\* n / d rounded to the nearest integer, ties to even (d > 0)
RoundHalfEven(n, d) ==
  LET q == n \div d
      r == n % d
  IN  IF 2 * r > d THEN q + 1
      ELSE IF 2 * r < d THEN q
      ELSE IF q % 2 = 0 THEN q ELSE q + 1

\* round(x, 2) on thousandths
round2(x) == RoundHalfEven(x, 10) * 10

\* round(((price - ref) / ref) * 100, 2), in thousandths of a percent; float
\* arithmetic does not raise on overflow, and round(inf, 2) is inf
PctChange(price, ref) ==
  LET exact == RoundHalfEven((price - ref) * 10000, ref) * 10
  IN  IF exact > FloatMax THEN PosInf ELSE exact

_safe_float(value) ==
  IF value \in {None, NaN, PosInf} THEN None ELSE value

\* Python's `a or b` on Optional[float]: b when a is None or 0.0
PyOr(a, b) == IF a = None \/ a = 0 THEN b ELSE a

\* ------------------------------------------------------------- substring
\* Python's `x in symbol` for strings
Contains(x, symbol) ==
  \E k \in 0..(Len(symbol) - Len(x)) :
    \A p \in 1..Len(x) : symbol[k + p] = x[p]

ExcludedMarkers ==
  { <<".", "P", "S">>, <<".", "L">>, <<".", "D", "E">>, <<".", "P", "A">>,
    <<".", "T">>, <<".", "H", "K">>, <<"^">> }

\* a mutant of line 179: only the index marker is looked for
FinnhubIncompatibleCaretOnly(symbol) == Contains(<<"^">>, symbol)

\* line 179
FinnhubIncompatible(symbol) ==
  \E x \in ExcludedMarkers : Contains(x, symbol)

\* ------------------------------------------------------------- _fallback_quote
\* What yf.Ticker(symbol) shows to _fallback_quote: whether the Ticker /
\* fast_info access raises, the three fast_info fields, and the history
\* call: it raises, or gives a frame (empty or not, with a Close column or
\* not).
HistEmpty == [raises |-> FALSE, empty |-> TRUE, hasClose |-> TRUE, closes |-> <<>>]
HistRaises == [raises |-> TRUE, empty |-> TRUE, hasClose |-> TRUE, closes |-> <<>>]
HistNoClose == [raises |-> FALSE, empty |-> FALSE, hasClose |-> FALSE, closes |-> <<>>]
HistOf(cs) == [raises |-> FALSE, empty |-> FALSE, hasClose |-> TRUE, closes |-> cs]

Hists ==
  { HistEmpty, HistRaises, HistNoClose,
    HistOf(<<0>>), HistOf(<<NaN>>), HistOf(<<8000, 12347>>) }

FallbackInputs ==
  [ raises : {FALSE},
    lastPrice : {None, 0, 12347},
    regularMarketPrice : {None, 0},
    previousClose : {None, 0, 8000},
    hist : Hists ]
  \cup
  { [raises |-> TRUE, lastPrice |-> None, regularMarketPrice |-> None,
     previousClose |-> None, hist |-> HistEmpty] }

\* line 208
FastPrice(inp) ==
  PyOr(_safe_float(inp.lastPrice), _safe_float(inp.regularMarketPrice))

\* lines 211-215: the history frame is consulted and has a usable Close column
HistRead(inp) ==
  /\ FastPrice(inp) = None
  /\ ~inp.hist.raises
  /\ ~inp.hist.empty
  /\ inp.hist.hasClose
  /\ Len(inp.hist.closes) > 0

\* an exception inside the try block (caught at line 228)
FallbackRaises(inp) ==
  \/ inp.raises
  \/ /\ FastPrice(inp) = None
     /\ \/ inp.hist.raises
        \/ ~inp.hist.empty /\ ~inp.hist.hasClose

FallbackPrice(inp) ==
  IF HistRead(inp)
  THEN _safe_float(inp.hist.closes[Len(inp.hist.closes)])
  ELSE FastPrice(inp)

FallbackPrevClose(inp) ==
  IF HistRead(inp) /\ Len(inp.hist.closes) >= 2
  THEN _safe_float(inp.hist.closes[Len(inp.hist.closes) - 1])
  ELSE _safe_float(inp.previousClose)

\* the pair (price, change_percent) returned
_fallback_quote(inp) ==
  IF FallbackRaises(inp) \/ FallbackPrice(inp) = None
  THEN <<None, None>>
  ELSE LET price == FallbackPrice(inp)
           prev_close == FallbackPrevClose(inp)
       IN  << round2(price),
              IF prev_close # None /\ prev_close # 0
              THEN PctChange(price, prev_close) ELSE 0 >>

\* ------------------------------------------------------------- _finnhub_quote
\* The HTTP answer: the request or the decoding raises, or fields c and pc.
FinnhubInputs ==
  [ raises : {FALSE}, c : {None, NaN, 0, 5000, FloatMax}, pc : {None, 0, 4000} ]
  \cup { [raises |-> TRUE, c |-> None, pc |-> None] }

\* a mutant of lines 175-176: the request does not wait for the credential
FinnhubRequestsNoKeyCheck(symbol, api_key) == ~FinnhubIncompatible(symbol)

\* lines 175-180: the request of line 184 is reached
FinnhubRequests(symbol, api_key) ==
  api_key /\ ~FinnhubIncompatible(symbol)

\* a mutant of lines 191-195: a quote without a previous close is dropped
_finnhub_quoteNeedsPrevClose(symbol, api_key, resp) ==
  IF ~api_key \/ FinnhubIncompatible(symbol) \/ resp.raises
  THEN <<None, None>>
  ELSE LET current == _safe_float(resp.c)
           prev_close == _safe_float(resp.pc)
       IN  IF current = None \/ current = 0 \/ prev_close = None \/ prev_close = 0
           THEN <<None, None>>
           ELSE <<round2(current), PctChange(current, prev_close)>>

_finnhub_quote(symbol, api_key, resp) ==
  IF ~api_key THEN <<None, None>>
  ELSE IF FinnhubIncompatible(symbol) THEN <<None, None>>
  ELSE IF resp.raises THEN <<None, None>>
  ELSE LET current == _safe_float(resp.c)
           prev_close == _safe_float(resp.pc)
       IN  IF current = None \/ current = 0 THEN <<None, None>>
           ELSE << round2(current),
                   IF prev_close # None /\ prev_close # 0
                   THEN PctChange(current, prev_close) ELSE 0 >>

\* ------------------------------------------------------------- bulk source
\* What yf.download's result shows for one symbol of the batch: the frame is
\* None, has no entry for the symbol, is empty, raises on access, or holds
\* the last Close and Open values.
Frames ==
  { [st |-> x, close |-> None, open |-> None] : x \in {"none", "keyerror", "empty", "raise"} }
  \cup [ st : {"ok"}, close : RawPrices, open : RawRefs ]

\* lines 304-310: df for the symbol. A batch of one uses the whole result;
\* otherwise a failing data[symbol] (no such key, data is None) gives an
\* empty frame.
df(blen, frame) ==
  IF blen # 1 /\ frame.st \in {"none", "keyerror"}
  THEN [frame EXCEPT !.st = "empty"]
  ELSE frame

\* line 312
FrameUsable(blen, frame) == df(blen, frame).st = "ok"

\* lines 313-318
BulkClose(blen, frame) ==
  IF FrameUsable(blen, frame) THEN _safe_float(frame.close) ELSE None

BulkOpen(blen, frame) ==
  IF FrameUsable(blen, frame) THEN _safe_float(frame.open) ELSE None

\* a mutant of line 342: the bulk open is never taken as the reference
OpenUsableNever(open_price) == open_price # None /\ open_price = None

\* line 342
OpenUsable(open_price) == open_price # None /\ open_price # 0

\* the reference a change was computed from; None when there was none to use
Chosen(ref) == IF ref # None /\ ref # 0 THEN ref ELSE None

\* ------------------------------------------------------------- state
VARIABLES
  manifest,     \* the manifest argument
  batch_size,   \* the batch_size argument
  api_key,      \* whether FINNHUB_API_KEY is set
  pc,           \* position in fetch_yahoo_prices
  i,            \* loop variable of line 290 (offset of the batch)
  j,            \* position of `symbol` in the batch (1-based)
  close_price,  \* local of the same name
  prices,       \* list `prices`
  failed,       \* list `failed`
  origin,       \* for each entry of prices: who priced it, reference chosen
  log,          \* calls made so far, with what they returned
  saved         \* what save_json was called with

vars == <<manifest, batch_size, api_key, pc, i, j, close_price, prices,
          failed, origin, log, saved>>

\* line 284
tickers_list == [k \in 1..Len(manifest) |-> manifest[k].symbol]

\* line 285 and logo_lookup.get(symbol)
\* a mutant of line 285: the lookup table is empty
logo_lookupMissing(symbol) == NoLogo

logo_lookup(symbol) ==
  IF \E k \in 1..Len(manifest) : manifest[k].symbol = symbol
  THEN manifest[CHOOSE k \in 1..Len(manifest) :
                  /\ manifest[k].symbol = symbol
                  /\ \A l \in (k + 1)..Len(manifest) : manifest[l].symbol # symbol].logo_url
  ELSE NoLogo

Min(a, b) == IF a < b THEN a ELSE b

\* line 290: i is in range(0, len(tickers_list), batch_size)
InRange(k) ==
  IF batch_size > 0 THEN k < Len(tickers_list) ELSE k > Len(tickers_list)

\* a mutant of line 291: the slice runs one symbol too far
BatchAtOverlap(k) ==
  SubSeq(tickers_list, k + 1, Min(k + batch_size + 1, Len(tickers_list)))

\* line 291: tickers_list[k:k+batch_size]
BatchAt(k) == SubSeq(tickers_list, k + 1, Min(k + batch_size, Len(tickers_list)))

batch == BatchAt(i)

\* a mutant of line 364: `break` in place of `continue`
AfterBatchErrorBreak(k) == Len(tickers_list)

\* line 364: `continue` takes the next offset of range(0, n, batch_size)
AfterBatchError(k) == k + batch_size

\* a mutant of line 363: the batch is not recorded as failed
FailedExtendDropped(f, b) == f

\* a mutant of line 363: the batch is put in front of failed
FailedExtendFront(f, b) == b \o f

\* line 363: failed.extend(batch)
FailedExtend(f, b) == f \o b

\* lines 330, 356, 363: what failed holds for a symbol is the symbol string
\* itself, so the logo_url it carries is none
FailedLogo(entry) == NoLogo

symbol == batch[j]

Ev(ev, sym, price, change, ref) ==
  [ev |-> ev, sym |-> sym, at |-> i, price |-> price, change |-> change, ref |-> ref]

Entry(sym, price, change) ==
  [symbol |-> sym, price |-> price, change_percent |-> change,
   logo_url |-> logo_lookup(sym)]

Init ==
  /\ manifest \in Manifests
  /\ batch_size \in (-1)..MaxBatch
  /\ api_key \in BOOLEAN
  /\ pc = "start"
  /\ i = 0
  /\ j = 1
  /\ close_price = None
  /\ prices = <<>>
  /\ failed = <<>>
  /\ origin = <<>>
  /\ log = <<>>
  /\ saved = <<>>

\* line 290: range() rejects a step of zero
RangeError ==
  /\ pc = "start"
  /\ batch_size = 0
  /\ pc' = "raised"
  /\ UNCHANGED <<manifest, batch_size, api_key, i, j, close_price, prices,
                 failed, origin, log, saved>>

\* line 290: the loop is entered
EnterLoop ==
  /\ pc = "start"
  /\ batch_size # 0
  /\ pc' = "loop"
  /\ UNCHANGED <<manifest, batch_size, api_key, i, j, close_price, prices,
                 failed, origin, log, saved>>

\* line 296: yf.download returns
Download ==
  /\ pc = "loop"
  /\ InRange(i)
  /\ log' = Append(log, Ev("download", <<>>, None, None, None))
  /\ j' = 1
  /\ pc' = "symbol"
  /\ UNCHANGED <<manifest, batch_size, api_key, i, close_price, prices,
                 failed, origin, saved>>

\* lines 296, 361-364: yf.download raises
DownloadRaises ==
  /\ pc = "loop"
  /\ InRange(i)
  /\ log' = Append(log, Ev("download_raise", <<>>, None, None, None))
  /\ failed' = FailedExtend(failed, batch)
  /\ i' = AfterBatchError(i)
  /\ UNCHANGED <<manifest, batch_size, api_key, pc, j, close_price, prices,
                 origin, saved>>

\* the reference price behind the change a fallback quote carries
FallbackRef(inp) ==
  IF _fallback_quote(inp)[1] = None THEN None ELSE Chosen(FallbackPrevClose(inp))

FinnhubRef(sym, key, resp) ==
  IF _finnhub_quote(sym, key, resp)[1] = None THEN None ELSE Chosen(_safe_float(resp.pc))

\* lines 186-189: `current` and the usable `prev_close` of the answer to a
\* request (None when the request raised or the price is not usable)
HttpCurrent(resp) == IF resp.raises THEN None ELSE _safe_float(resp.c)

HttpPrevClose(resp) ==
  IF HttpCurrent(resp) \in {None, 0} THEN None ELSE Chosen(_safe_float(resp.pc))

\* a mutant of line 321: a bulk price of zero is sent to the fallback too
NoBulkPriceOrZero(cp) == cp = None \/ cp = 0

\* line 321: `if close_price is None` after the frame was read
NoBulkPrice(cp) == cp = None

\* line 326: `if close_price is None` after _fallback_quote
NoFallbackPrice(cp) == cp = None

\* a mutant of lines 329-331: the symbol is not given up
NoPriceIgnored(cp) == FALSE

\* line 329: `if close_price is None` after _finnhub_quote
NoPrice(cp) == cp = None

\* `x if x is not None else 0.0`
OrZero(x) == IF x # None THEN x ELSE 0

\* a mutant of the for loop of line 298: the same symbol is taken again
NextSymbolStuck ==
  /\ pc' = "symbol"
  /\ j' = j
  /\ close_price' = None

NextSymbol ==
  /\ pc' = "symbol"
  /\ j' = j + 1
  /\ close_price' = None

\* lines 298-321, 341-343, 348-357: the symbol's frame is read
ReadFrame ==
  /\ pc = "symbol"
  /\ j <= Len(batch)
  /\ \E frame \in Frames :
       /\ Len(batch) = 1 => frame.st # "keyerror"
       /\ LET cp == BulkClose(Len(batch), frame)
              op == BulkOpen(Len(batch), frame)
          IN  IF df(Len(batch), frame).st = "raise"
              THEN /\ failed' = Append(failed, symbol)
                   /\ log' = Append(log, Ev("frame_raise", symbol, None, None, None))
                   /\ NextSymbol
                   /\ UNCHANGED <<prices, origin>>
              ELSE /\ log' = Append(log, Ev("frame", symbol, cp, None,
                                         IF cp = None THEN None ELSE Chosen(op)))
                   /\ IF NoBulkPrice(cp)
                      THEN /\ pc' = "fb_price"
                           /\ UNCHANGED <<j, close_price, prices, failed, origin>>
                      ELSE IF OpenUsable(op)
                      THEN /\ prices' = Append(prices,
                                  Entry(symbol, round2(cp), PctChange(cp, op)))
                           /\ origin' = Append(origin, [src |-> "bulk", ref |-> op])
                           /\ NextSymbol
                           /\ UNCHANGED failed
                      ELSE /\ pc' = "fb_change"
                           /\ close_price' = cp
                           /\ UNCHANGED <<j, prices, failed, origin>>
  /\ UNCHANGED <<manifest, batch_size, api_key, i, saved>>

\* lines 323-326, 333-339: the single-symbol fallback is asked for a price
FallbackForPrice ==
  /\ pc = "fb_price"
  /\ \E inp \in FallbackInputs :
       LET q == _fallback_quote(inp)
       IN  /\ log' = Append(log, Ev("fallback", symbol, q[1], q[2], FallbackRef(inp)))
           /\ IF NoFallbackPrice(q[1])
              THEN /\ pc' = "finnhub"
                   /\ UNCHANGED <<j, close_price, prices, origin>>
              ELSE /\ prices' = Append(prices, Entry(symbol, q[1], OrZero(q[2])))
                   /\ origin' = Append(origin,
                          [src |-> "fallback", ref |-> FallbackRef(inp)])
                   /\ NextSymbol
  /\ UNCHANGED <<manifest, batch_size, api_key, i, failed, saved>>

\* lines 327-339: the secondary source is asked
FinnhubCall ==
  /\ pc = "finnhub"
  /\ \E resp \in FinnhubInputs :
       LET q == _finnhub_quote(symbol, api_key, resp)
           ref == FinnhubRef(symbol, api_key, resp)
       IN  /\ log' = log \o <<Ev("finnhub", symbol, q[1], q[2], ref)>> \o
                     (IF FinnhubRequests(symbol, api_key)
                      THEN <<Ev("http", symbol, HttpCurrent(resp), None,
                                 HttpPrevClose(resp))>>
                      ELSE <<>>)
           /\ IF NoPrice(q[1])
              THEN /\ failed' = Append(failed, symbol)
                   /\ UNCHANGED <<prices, origin>>
              ELSE /\ prices' = Append(prices, Entry(symbol, q[1], OrZero(q[2])))
                   /\ origin' = Append(origin, [src |-> "finnhub", ref |-> ref])
                   /\ UNCHANGED failed
  /\ NextSymbol
  /\ UNCHANGED <<manifest, batch_size, api_key, i, saved>>

\* lines 344-353: the bulk price stands, the fallback is asked for the change
FallbackForChange ==
  /\ pc = "fb_change"
  /\ \E inp \in FallbackInputs :
       LET q == _fallback_quote(inp)
       IN  /\ log' = Append(log, Ev("fallback", symbol, q[1], q[2], FallbackRef(inp)))
           /\ prices' = Append(prices,
                  Entry(symbol, round2(close_price), round2(OrZero(q[2]))))
           /\ origin' = Append(origin, [src |-> "bulk", ref |-> FallbackRef(inp)])
  /\ NextSymbol
  /\ UNCHANGED <<manifest, batch_size, api_key, i, failed, saved>>

\* line 359: the batch is through, time.sleep(1)
Sleep ==
  /\ pc = "symbol"
  /\ j > Len(batch)
  /\ log' = Append(log, Ev("sleep", <<>>, None, None, None))
  /\ i' = i + batch_size
  /\ j' = 1
  /\ pc' = "loop"
  /\ UNCHANGED <<manifest, batch_size, api_key, close_price, prices, failed,
                 origin, saved>>

\* lines 366-374: the loop is over, the result goes to save_json
Save ==
  /\ pc = "loop"
  /\ ~InRange(i)
  /\ saved' = Append(saved, [prices |-> prices, failed_tickers |-> failed])
  /\ pc' = "done"
  /\ UNCHANGED <<manifest, batch_size, api_key, i, j, close_price, prices,
                 failed, origin, log>>

Next ==
  \/ RangeError
  \/ EnterLoop
  \/ Download
  \/ DownloadRaises
  \/ ReadFrame
  \/ FallbackForPrice
  \/ FallbackForChange
  \/ FinnhubCall
  \/ Sleep
  \/ Save

Spec == Init /\ [][Next]_vars

\* ------------------------------------------------------------- vocabulary
Done == pc = "done"

Symbols == {tickers_list[k] : k \in 1..Len(tickers_list)}

PricedSymbols == [k \in 1..Len(prices) |-> prices[k].symbol]

Count(seq, x) == Cardinality({k \in 1..Len(seq) : seq[k] = x})

\* positions of the log where `ev` happened for symbol s
Calls(ev, s) == {k \in 1..Len(log) : log[k].ev = ev /\ log[k].sym = s}

\* positions of the log where a bulk call was made
BulkCalls == {k \in 1..Len(log) : log[k].ev \in {"download", "download_raise"}}

\* -------------------------------------------------------------------- C1
\* C1: when the run has completed for a positive batch size, every symbol of
\* the manifest is exactly once in prices or failed (never both, never
\* twice), so len(prices) + len(failed) = len(manifest).
C1_Partition ==
  (Done /\ batch_size > 0) =>
    /\ \A s \in Symbols : Count(PricedSymbols, s) + Count(failed, s) = 1
    /\ Len(prices) + Len(failed) = Len(manifest)
    /\ \A k \in 1..Len(prices) : prices[k].symbol \in Symbols
    /\ \A k \in 1..Len(failed) : failed[k] \in Symbols

\* a completed run over three symbols in two batches, the first priced, the
\* second lost to a raising bulk call
C1_Witness ==
  /\ Done
  /\ Len(manifest) = 3
  /\ batch_size = 2
  /\ Len(prices) = 2
  /\ Len(failed) = 1
  /\ \E k \in 1..Len(log) : log[k].ev = "download_raise"

\* -------------------------------------------------------------------- C2
\* C2: when the bulk call of a batch raised, a symbol of that batch is in
\* failed only after the single-symbol fallback was tried for it.
C2_RetriedAfterBulkError ==
  \A k \in 1..Len(log) :
    log[k].ev = "download_raise" =>
      \A p \in 1..Len(BatchAt(log[k].at)) :
        LET s == BatchAt(log[k].at)[p]
        IN  Count(failed, s) > 0 => Calls("fallback", s) # {}

\* -------------------------------------------------------------------- C3
\* C3: no record priced by the bulk source carries the price 0; a bulk price
\* of zero sends the symbol to the single-symbol fallback for its price.
C3_NoZeroBulkPrice ==
  \A k \in 1..Len(prices) :
    origin[k].src = "bulk" => prices[k].price # 0

\* -------------------------------------------------------------------- C4
\* C4: a price of zero from the single-symbol fallback is rejected: no record
\* priced by the single-symbol fallback carries the price 0.
C4_NoZeroFallbackPrice ==
  \A k \in 1..Len(prices) :
    origin[k].src = "fallback" => prices[k].price # 0

\* -------------------------------------------------------------------- C5
\* C5: a record's change_percent is 0.0 when no usable reference was chosen
\* for it, and otherwise (price - reference) / reference * 100 rounded to two
\* decimals, price being the price of that record.
C5_ChangeFromEmittedPrice ==
  \A k \in 1..Len(prices) :
    IF origin[k].ref = None
    THEN prices[k].change_percent = 0
    ELSE \E p \in (prices[k].price - 5)..(prices[k].price + 5) :
           /\ round2(p) = prices[k].price
           /\ prices[k].change_percent = PctChange(p, origin[k].ref)

\* -------------------------------------------------------------------- C6
\* C6: once the bulk source has shown a finite non-zero price and a finite
\* non-zero open for a symbol, neither fallback adapter is ever called for
\* it, and its record carries the rounded bulk price and the change computed
\* from the bulk open (10 and 8 give 10.00 and 25.00); it is not in failed.
C6_FallbackAvoidance ==
  \A k \in 1..Len(log) :
    (log[k].ev = "frame" /\ log[k].price # None /\ log[k].price # 0
       /\ log[k].ref # None) =>
      LET s == log[k].sym
          cp == log[k].price
          op == log[k].ref
      IN  /\ Calls("fallback", s) = {}
          /\ Calls("finnhub", s) = {}
          /\ Calls("http", s) = {}
          /\ Count(failed, s) = 0
          /\ \E n \in 1..Len(prices) :
               /\ prices[n].symbol = s
               /\ origin[n].src = "bulk"
               /\ prices[n].price = RoundHalfEven(cp, 10) * 10
               /\ prices[n].change_percent =
                    RoundHalfEven((cp - op) * 10000, op) * 10
               /\ (cp = 10000 /\ op = 8000) =>
                    (prices[n].price = 10000 /\ prices[n].change_percent = 25000)

\* the scenario of the spec: one symbol, bulk price 10 and open 8
C6_Witness ==
  /\ Done
  /\ Len(manifest) = 1
  /\ failed = <<>>
  /\ Len(prices) = 1
  /\ prices[1].price = 10000
  /\ prices[1].change_percent = 25000
  /\ origin[1] = [src |-> "bulk", ref |-> 8000]
  /\ Calls("fallback", manifest[1].symbol) = {}

\* -------------------------------------------------------------------- C7
\* C7: a request to the secondary source is issued for a symbol only after
\* the bulk source showed no price for it and then the single-symbol
\* fallback returned no price, and only for a symbol that holds none of the
\* excluded markers.
C7_SecondaryOnlyWhenDue ==
  \A k \in 1..Len(log) :
    log[k].ev = "http" =>
      LET s == log[k].sym
      IN  /\ s \notin {SymIdx, SymL}
          /\ \E f \in Calls("frame", s), b \in Calls("fallback", s) :
               /\ f < b
               /\ b < k
               /\ log[f].price = None
               /\ log[b].price = None

\* a request was issued for the compatible symbol
C7_Witness ==
  /\ Calls("http", SymB) # {}
  /\ \E k \in 1..Len(failed) : failed[k] \in {SymIdx, SymL}
       /\ Calls("finnhub", failed[k]) # {}

\* -------------------------------------------------------------------- C8
\* C8: between any two consecutive bulk calls the pacing pause is executed,
\* however the earlier batch ended.
C8_PauseBetweenBatches ==
  \A a, b \in BulkCalls :
    a < b => \E k \in (a + 1)..(b - 1) : log[k].ev = "sleep"

\* -------------------------------------------------------------------- C9
\* C9: with a batch size of zero or less the run aborts: it never completes,
\* hands nothing to the sink and calls no adapter (stated for the manifests
\* that hold a symbol, where a completed run leaves symbols out).
C9_BadBatchSizeAborts ==
  (batch_size <= 0 /\ manifest # <<>>) =>
    (~Done /\ saved = <<>> /\ log = <<>>)

\* -------------------------------------------------------------------- C10
\* C10: for a positive batch size nothing an adapter does ends the run: it
\* never raises, it is never stuck before completion, every step brings it
\* closer to completion, nothing reaches the sink before the last batch, and
\* at completion the sink has received exactly one result, which accounts
\* for every symbol; an empty manifest gives an empty result and no call.
BatchesLeft ==
  IF i >= Len(tickers_list) THEN 0
  ELSE (Len(tickers_list) - i + batch_size - 1) \div batch_size

Rank ==
  CASE pc = "start" -> 9
    [] pc = "loop" -> 8
    [] pc = "symbol" -> 3
    [] pc = "fb_price" -> 2
    [] pc \in {"finnhub", "fb_change"} -> 1
    [] OTHER -> 0

Measure ==
  100 * BatchesLeft + 10 * (Len(manifest) - Len(prices) - Len(failed)) + Rank

C10_State ==
  batch_size > 0 =>
    /\ pc # "raised"
    /\ ~Done => (saved = <<>> /\ ENABLED Next)
    /\ Done =>
         /\ Len(saved) = 1
         /\ saved[1] = [prices |-> prices, failed_tickers |-> failed]
         /\ Len(prices) + Len(failed) = Len(manifest)
         /\ ~ENABLED Next
         /\ manifest = <<>> => (prices = <<>> /\ failed = <<>> /\ log = <<>>)

C10_RunCompletes ==
  /\ []C10_State
  /\ [][batch_size > 0 => (Measure' < Measure /\ Measure' >= 0)]_vars

\* a completed run in which a bulk call raised, a fallback raised and the
\* secondary source raised or was skipped
C10_Witness ==
  /\ Done
  /\ batch_size = 1
  /\ Len(manifest) = 3
  /\ Len(saved) = 1
  /\ \E k \in 1..Len(log) : log[k].ev = "download_raise"
  /\ \E k \in 1..Len(log) : log[k].ev = "frame_raise"
  /\ \E k \in 1..Len(log) : log[k].ev = "finnhub"

C12_NoCredential ==
  ~api_key =>
    /\ \A k \in 1..Len(log) : log[k].ev # "http"
    /\ \A k \in 1..Len(log) :
         log[k].ev = "finnhub" =>
           /\ log[k].price = None
           /\ log[k].change = None
           /\ Count(failed, log[k].sym) = 1
    /\ batch_size > 0 => pc # "raised"
    /\ (Done /\ batch_size > 0) =>
         \A s \in Symbols : Count(PricedSymbols, s) + Count(failed, s) = 1

\* no credential: the compatible symbol went through the secondary source
\* and failed, another symbol was priced
C12_Witness ==
  /\ ~api_key
  /\ Done
  /\ Calls("finnhub", SymB) # {}
  /\ Count(failed, SymB) = 1
  /\ Len(prices) >= 1

\* -------------------------------------------------------------------- C13
\* C13: the batches are contiguous slices in input order of batch_size
\* symbols, the last one possibly shorter; the k-th bulk call is made for
\* offset (k-1) * batch_size, when exactly the symbols before that offset
\* have been processed; at completion the slices cover every position once.
ProcessedSymbols ==
  {PricedSymbols[k] : k \in 1..Len(prices)} \cup {failed[k] : k \in 1..Len(failed)}

FirstSymbols(n) == {tickers_list[p] : p \in 1..Min(n, Len(tickers_list))}

C13_ContiguousBatches ==
  batch_size > 0 =>
    /\ \A a \in BulkCalls :
         /\ log[a].at = batch_size * Cardinality({b \in BulkCalls : b < a})
         /\ log[a].at < Len(manifest)
    /\ pc \in {"symbol", "fb_price", "fb_change", "finnhub"} =>
         /\ Len(batch) = Min(batch_size, Len(manifest) - i)
         /\ Len(batch) >= 1
         /\ \A p \in 1..Len(batch) : batch[p] = manifest[i + p].symbol
         /\ ProcessedSymbols = FirstSymbols(i + j - 1)
         /\ Len(prices) + Len(failed) = i + j - 1
    /\ pc = "loop" =>
         /\ ProcessedSymbols = FirstSymbols(i)
         /\ Len(prices) + Len(failed) = Min(i, Len(manifest))
    /\ Done =>
         /\ batch_size * Cardinality(BulkCalls) >= Len(manifest)
         /\ batch_size * (Cardinality(BulkCalls) - 1) < Len(manifest)
                \/ manifest = <<>>

\* three symbols in batches of two: a full slice, then the shorter last one
C13_Witness ==
  /\ Len(manifest) = 3
  /\ batch_size = 2
  /\ pc = "symbol"
  /\ i = 2
  /\ Len(batch) = 1
  /\ Cardinality(BulkCalls) = 2

\* -------------------------------------------------------------------- C14
\* C14: a symbol for which the bulk source showed no finite price, the
\* single-symbol fallback returned no price and the secondary source
\* returned no price (asked or skipped) is in failed, once, and not in prices.
C14_Exhausted ==
  \A s \in Symbols :
    ( /\ \E f \in Calls("frame", s) : log[f].price = None
      /\ \E b \in Calls("fallback", s) : log[b].price = None
      /\ \E h \in Calls("finnhub", s) : log[h].price = None ) =>
      /\ Count(failed, s) = 1
      /\ Count(PricedSymbols, s) = 0

\* the scenario of the spec: one symbol, nothing from any of the three
\* sources, the secondary source having been asked
C14_Witness ==
  /\ Done
  /\ manifest = <<[symbol |-> SymB, logo_url |-> "logoB"]>>
  /\ prices = <<>>
  /\ failed = <<SymB>>
  /\ \E k \in Calls("http", SymB) : log[k].price = None

\* -------------------------------------------------------------------- C15
Finite(x) == x \notin {None, NaN, PosInf}

\* C15: every record appended to prices has a finite price and a finite
\* change_percent (never NaN, never infinity, never None).
C15_FinitePriced ==
  \A k \in 1..Len(prices) :
    Finite(prices[k].price) /\ Finite(prices[k].change_percent)

\* -------------------------------------------------------------------- C16
\* the logo_url of the manifest record with exactly this symbol
ManifestLogo(s) ==
  manifest[CHOOSE m \in 1..Len(manifest) : manifest[m].symbol = s].logo_url

\* C16 as stated: every record of prices carries the logo_url of the manifest
\* record with the same symbol, and every entry of failed likewise.
C16_AllCarryMetadata ==
  /\ \A k \in 1..Len(prices) :
       prices[k].logo_url = ManifestLogo(prices[k].symbol)
  /\ \A k \in 1..Len(failed) : FailedLogo(failed[k]) = ManifestLogo(failed[k])

\* C16 amended: every record of prices carries the logo_url of the manifest
\* record with the same symbol, null when that record has none, and the run
\* does not raise for it; an entry of failed is a symbol of the manifest and
\* carries nothing else.
C16_PricesCarryMetadata ==
  /\ \A k \in 1..Len(prices) :
       /\ \E m \in 1..Len(manifest) : manifest[m].symbol = prices[k].symbol
       /\ \A m \in 1..Len(manifest) :
            manifest[m].symbol = prices[k].symbol =>
              prices[k].logo_url = manifest[m].logo_url
  /\ \A k \in 1..Len(failed) :
       failed[k] \in Symbols /\ FailedLogo(failed[k]) = NoLogo
  /\ (batch_size > 0) => pc # "raised"

\* a finished run that priced a symbol with a logo and a symbol without one
C16_Witness ==
  /\ Done
  /\ \E a, b \in 1..Len(prices) :
       /\ prices[a].symbol = SymB /\ prices[a].logo_url = "logoB"
       /\ prices[b].symbol = SymIdx /\ prices[b].logo_url = NoLogo

\* -------------------------------------------------------------------- C17
\* C17: a symbol whose bulk frame showed a price but no usable open is never
\* in failed and is never handed to the secondary source; the fallback is
\* asked exactly once, and whatever it answers the record of the symbol has
\* the rounded bulk price and the fallback's change (0 when it gave none).
C17_BulkPriceKept ==
  \A s \in Symbols : \A f \in Calls("frame", s) :
    (log[f].price # None /\ log[f].ref = None) =>
      /\ Calls("finnhub", s) = {}
      /\ Calls("http", s) = {}
      /\ Count(failed, s) = 0
      /\ IF Calls("fallback", s) = {}
         THEN /\ pc = "fb_change"
              /\ symbol = s
              /\ close_price = log[f].price
              /\ Count(PricedSymbols, s) = 0
         ELSE /\ Cardinality(Calls("fallback", s)) = 1
              /\ Count(PricedSymbols, s) = 1
              /\ \A k \in 1..Len(prices) : \A b \in Calls("fallback", s) :
                   prices[k].symbol = s =>
                     /\ prices[k].price = round2(log[f].price)
                     /\ prices[k].change_percent = round2(OrZero(log[b].change))

\* the fallback answered with a price of its own and a change; the record
\* has the bulk price and that change
C17_Witness ==
  \E s \in Symbols : \E f \in Calls("frame", s) : \E b \in Calls("fallback", s) :
    /\ log[f].price = 10000 /\ log[f].ref = None
    /\ log[b].price \notin {None, 10000}
    /\ log[b].change \notin {None, 0}
    /\ \E k \in 1..Len(prices) :
         /\ prices[k].symbol = s
         /\ prices[k].price = 10000
         /\ prices[k].change_percent = log[b].change

\* -------------------------------------------------------------------- C18
IndexOf(s) == CHOOSE k \in 1..Len(tickers_list) : tickers_list[k] = s

\* C18: prices and failed are each a subsequence of the manifest's symbol
\* order, at every point of the run.
C18_InputOrder ==
  /\ \A a, b \in 1..Len(prices) :
       a < b => IndexOf(prices[a].symbol) < IndexOf(prices[b].symbol)
  /\ \A a, b \in 1..Len(failed) :
       a < b => IndexOf(failed[a]) < IndexOf(failed[b])

\* a finished run of three symbols: the first failed on its own, the second
\* was priced, the third failed with its batch's bulk call
C18_Witness ==
  /\ Done
  /\ Len(manifest) = 3
  /\ batch_size = 1
  /\ failed = <<tickers_list[1], tickers_list[3]>>
  /\ PricedSymbols = <<tickers_list[2]>>
  /\ Cardinality({k \in 1..Len(log) : log[k].ev = "download_raise"}) = 1
  /\ Calls("finnhub", tickers_list[1]) # {}

\* -------------------------------------------------------------------- C19
\* the bulk calls made before the k-th event of the log
BulkCallsBefore(k) == {b \in BulkCalls : b < k}

\* the symbols of the batches whose bulk call raised
RaisedSymbols ==
  UNION { {tickers_list[p] :
             p \in (batch_size * Cardinality(BulkCallsBefore(k)) + 1) ..
                   Min(batch_size * (Cardinality(BulkCallsBefore(k)) + 1),
                       Len(tickers_list))} :
          k \in {b \in BulkCalls : log[b].ev = "download_raise"} }

\* C19: in one run the single-symbol fallback is invoked at most once per
\* symbol and the secondary adapter at most once per symbol, and a symbol
\* whose batch's bulk call raised gets no fallback invocation.
C19_AtMostOnce ==
  /\ \A s \in Symbols :
       /\ Cardinality(Calls("fallback", s)) <= 1
       /\ Cardinality(Calls("finnhub", s)) <= 1
       /\ Cardinality(Calls("http", s)) <= 1
  /\ \A s \in RaisedSymbols :
       /\ Calls("fallback", s) = {}
       /\ Calls("finnhub", s) = {}

\* a finished run in which one symbol went through both adapters and
\* another one was in a batch whose bulk call raised
C19_Witness ==
  /\ Done
  /\ \E s \in Symbols :
       /\ Cardinality(Calls("fallback", s)) = 1
       /\ Cardinality(Calls("http", s)) = 1
  /\ \E s \in RaisedSymbols : Count(failed, s) = 1

====
